---- MODULE Spec2Model ----
(***************************************************************************)
(* agentracer (python): the telemetry propagation and dispatch engine of   *)
(* src/agentracer/__init__.py as a state machine.                          *)
(*                                                                         *)
(* State: the process-wide _config dict, one contextvars Context per       *)
(* logical task (the feature tag and the active run it holds), each task's *)
(* stack of open scopes, the AgentRun objects, and the records handed to   *)
(* detached senders.  One action per public operation; track() on its      *)
(* auto-attachment path is split at the bytecode boundaries of             *)
(* AgentRun._next_step, which takes no lock.                               *)
(***************************************************************************)
EXTENDS Integers, Sequences, FiniteSets, TLC

VARIABLES
    config,     \* _config
    status,     \* task -> "unstarted" | "running"
    inLoop,     \* task -> TRUE when it runs inside the asyncio event loop
    ctxTag,     \* task -> value of _current_feature_tag in the task's Context
    ctxRun,     \* task -> value of _current_run in the task's Context
    stack,      \* task -> open scopes (with blocks, observe calls), innermost last
    pc,         \* task -> position inside track(): "idle" | "store" | "ret"
    loc,        \* task -> locals of the track() call in flight
    runs,       \* AgentRun objects
    senders,    \* records handed to the Dispatcher, in dispatch order
    ops,        \* number of API calls made so far
    last,       \* the API call that completed last (history)
    issued,     \* run -> the step indices _next_step returned, with their callers (history)
    adapter     \* the provider-adapter call of the main task: vendor output, what the
                \* wrapper passed on, and the track() calls it made

vars ==
    <<config, status, inLoop, ctxTag, ctxRun, stack, pc, loc, runs, senders, ops, last,
      issued, adapter>>

----------------------------------------------------------------------------
\* Bounds of the model.
NTasks == 2
NRuns == 2
MaxOps == 4
MaxDepth == 2

Tasks == 1..NTasks
Runs == 1..NRuns

----------------------------------------------------------------------------
\* Python values.
None == "None"
NoRun == 0
NoStep == -1

\* Truthiness of a str (or None): None and "" are falsy.
Truthy(s) == s # None /\ s # ""

\* a or b
Or(a, b) == IF Truthy(a) THEN a ELSE b

\* Exceptions a scope body can raise: the class name, and the truth value of
\* the instance (a class defining __bool__ or __len__ can make it falsy).
NoExc == [cls |-> None, truthy |-> FALSE]
Exceptions ==
    { [cls |-> "ValueError", truthy |-> TRUE],
      [cls |-> "EmptyError", truthy |-> FALSE] }

----------------------------------------------------------------------------
\* _config
EmptyCfg ==
    [present |-> FALSE, tracker_api_key |-> None, project_id |-> None,
     environment |-> None, host |-> None, debug |-> FALSE, enabled |-> TRUE]

DefaultHost == "https://api.agentracer.dev"

\* Argument bundles of init(): the defaults, a second project with every
\* option changed, and the defaults with enabled=False.
InitArgs ==
    { [tracker_api_key |-> "k1", project_id |-> "p1", environment |-> "production",
       host |-> DefaultHost, debug |-> FALSE, enabled |-> TRUE],
      [tracker_api_key |-> "k2", project_id |-> "p2", environment |-> "staging",
       host |-> "h2", debug |-> TRUE, enabled |-> TRUE],
      [tracker_api_key |-> "k1", project_id |-> "p1", environment |-> "production",
       host |-> DefaultHost, debug |-> FALSE, enabled |-> FALSE] }

\* _config.update({...}) with all six keys
ConfigUpdate(a) ==
    [present |-> TRUE, tracker_api_key |-> a.tracker_api_key, project_id |-> a.project_id,
     environment |-> a.environment, host |-> a.host, debug |-> a.debug,
     enabled |-> a.enabled]

\* CfgEnabled with the flag never consulted
CfgEnabledIgnored(c) == TRUE

\* _config.get("enabled", True)
CfgEnabled(c) == IF c.present THEN c.enabled ELSE TRUE

\* _config.get("debug")
CfgDebug(c) == IF c.present THEN c.debug ELSE FALSE

\* _config.get("environment", "production")
CfgEnvironment(c) == IF c.present THEN c.environment ELSE "production"

\* _config["project_id"], _config["host"], _config["tracker_api_key"] raise
\* KeyError when the key is missing
HasKeys(c) == c.present

----------------------------------------------------------------------------
\* contextvars: Token, ContextVar.set, ContextVar.reset
NoToken == [set |-> FALSE, old |-> None, oldRun |-> NoRun, ctx |-> 0, used |-> FALSE]

\* token = _current_feature_tag.set(...) in the Context of task t
TagToken(t) ==
    [set |-> TRUE, old |-> ctxTag[t], oldRun |-> NoRun, ctx |-> t, used |-> FALSE]

\* token = _current_run.set(...) in the Context of task t
RunToken(t) ==
    [set |-> TRUE, old |-> None, oldRun |-> ctxRun[t], ctx |-> t, used |-> FALSE]

\* What var.reset(token) raises in task t: RuntimeError for a token used
\* before, ValueError for a token of another Context.
ResetError(t, tok) ==
    IF tok.used THEN "RuntimeError"
    ELSE IF tok.ctx # t THEN "ValueError"
    ELSE None

\* TagAfterReset when the exit clears the variable instead of resetting it
TagAfterResetCleared(t, tok) == None

\* The feature tag after _current_feature_tag.reset(tok) in task t
TagAfterReset(t, tok) ==
    IF ResetError(t, tok) = None THEN tok.old ELSE ctxTag[t]

\* The active run after _current_run.reset(tok) in task t
RunAfterReset(t, tok) ==
    IF ResetError(t, tok) = None THEN tok.oldRun ELSE ctxRun[t]

\* The token after a reset was attempted with it
Consumed(t, tok) ==
    IF ResetError(t, tok) = None THEN [tok EXCEPT !.used = TRUE] ELSE tok

----------------------------------------------------------------------------
\* AgentRun objects
RunId(r) == IF r = 1 THEN "run-1" ELSE IF r = 2 THEN "run-2" ELSE "run-3"

\* Constructor arguments: the defaults (feature_tag "unknown", no name), a
\* named run with a tag, and a named run with an empty tag.
RunArgs ==
    { [run_name |-> None, feature_tag |-> "unknown"],
      [run_name |-> "demo", feature_tag |-> "bot"],
      [run_name |-> "demo", feature_tag |-> ""] }

NotMade ==
    [made |-> FALSE, run_id |-> None, run_name |-> None, feature_tag |-> None,
     step_counter |-> 0, token |-> NoToken, feature_token |-> NoToken]

\* AgentRun.__init__
NewRun(r, a) ==
    [made |-> TRUE, run_id |-> RunId(r), run_name |-> a.run_name,
     feature_tag |-> a.feature_tag, step_counter |-> 0,
     token |-> NoToken, feature_token |-> NoToken]

----------------------------------------------------------------------------
\* Records and the Dispatcher
BlankRecord ==
    [path |-> None, project_id |-> None, run_id |-> None, step_index |-> NoStep,
     feature_tag |-> None, environment |-> None, run_name |-> None,
     status |-> None, error_type |-> None, success |-> TRUE,
     via |-> None, phase |-> "queued", printed |-> FALSE, host |-> None, key |-> None,
     attempts |-> 0]

\* Via with a thread spawned whatever the caller's context
ViaThreadAlways(t) == "thread"

\* asyncio.get_running_loop(): a task of the loop gets loop.create_task,
\* anything else a daemon thread
Via(t) == IF inLoop[t] THEN "task" ELSE "thread"

\* Dispatched with the caller making each request itself before it returns
DispatchedAwaited(t, recs) ==
    senders \o [i \in 1..Len(recs) |->
                    [recs[i] EXCEPT !.via = Via(t), !.phase = "sent", !.attempts = 1]]

\* loop.create_task(...) / threading.Thread(..., daemon=True).start(): the
\* records are handed over, in order, and the caller goes on
Dispatched(t, recs) ==
    senders \o [i \in 1..Len(recs) |-> [recs[i] EXCEPT !.via = Via(t)]]

\* Arguments of track(): the defaults, an explicit feature tag, an empty
\* explicit feature tag, an explicit run_id with the caller's step_index, a
\* failure report, an explicit environment, and an empty explicit environment.
NoArgs ==
    [feature_tag |-> None, run_id |-> None, step_index |-> NoStep,
     environment |-> None, success |-> TRUE, error_type |-> None]

TrackArgs ==
    { NoArgs,
      [NoArgs EXCEPT !.feature_tag = "x"],
      [NoArgs EXCEPT !.feature_tag = ""],
      [NoArgs EXCEPT !.run_id = "ext", !.step_index = 7],
      [NoArgs EXCEPT !.success = FALSE, !.error_type = "Timeout"],
      [NoArgs EXCEPT !.environment = "dev"],
      [NoArgs EXCEPT !.environment = ""] }

NoLocals == [args |-> NoArgs, run |-> NoRun, tmp |-> 0]

\* History: the API call that completed last, its caller and arguments, the
\* exception it raised into its caller, the ambient values it found, and how
\* many records it dispatched.
NoLast ==
    [op |-> "none", t |-> 0, r |-> NoRun, exc |-> NoExc, raised |-> None,
     skipped |-> FALSE, args |-> NoArgs, preTag |-> None, preRun |-> NoRun,
     before |-> 0, nrec |-> 0]

\* Tasks of one event loop run one at a time: while one is inside track()
\* no other task of the loop is scheduled.  Threads interleave freely.
Runnable(t) ==
    /\ status[t] = "running"
    /\ inLoop[t] => \A u \in Tasks \ {t} : inLoop[u] => pc[u] = "idle"

Idle(t) == Runnable(t) /\ pc[t] = "idle"

----------------------------------------------------------------------------
\* Provider adapters (openai.py, anthropic.py, gemini.py).

Providers == {"openai", "anthropic", "gemini"}

\* A usage figure a vendor object does not carry (None, or no such attribute)
NoCount == -1

\* getattr(usage, ..., 0) or 0
OrZero(n) == IF n = NoCount THEN 0 ELSE n

\* chunk.usage is None / no usage attribute
NoUsage == [present |-> FALSE, input |-> NoCount, output |-> NoCount]

Usages ==
    { NoUsage,
      [present |-> TRUE, input |-> 2, output |-> 3],
      [present |-> TRUE, input |-> 4, output |-> NoCount] }

\* The elements of a vendor stream: the event type Anthropic's wrapper
\* looks at, and the usage the element carries
Elements == [type : {"message_start", "message_delta", "other"}, usage : Usages]

MaxStream == 2

Streams == UNION { [1..n -> Elements] : n \in 0..MaxStream }

\* The responses of a non-streaming call; usage is Optional in the OpenAI
\* SDK's ChatCompletion only
Responses(p) ==
    { [id |-> "response", usage |-> u] : u \in IF p = "openai" THEN Usages ELSE Usages \ {NoUsage} }

\* The feature_tag keyword of the adapter call
AdapterTags == {None, "x"}

NoAdapter ==
    [provider |-> None, phase |-> "idle", src |-> <<>>, yielded |-> <<>>,
     input_tokens |-> 0, output_tokens |-> 0, feature_tag |-> None,
     response |-> [id |-> None, usage |-> NoUsage],
     returned |-> [id |-> None, usage |-> NoUsage],
     propagated |-> None, calls |-> <<>>]

----------------------------------------------------------------------------
Init ==
    /\ config = EmptyCfg
    /\ status = [t \in Tasks |-> IF t = 1 THEN "running" ELSE "unstarted"]
    /\ inLoop \in {[t \in Tasks |-> b /\ t = 1] : b \in BOOLEAN}
    /\ ctxTag = [t \in Tasks |-> None]
    /\ ctxRun = [t \in Tasks |-> NoRun]
    /\ stack = [t \in Tasks |-> <<>>]
    /\ pc = [t \in Tasks |-> "idle"]
    /\ loc = [t \in Tasks |-> NoLocals]
    /\ runs = [r \in Runs |-> NotMade]
    /\ senders = <<>>
    /\ ops = 0
    /\ last = NoLast
    /\ issued = [r \in Runs |-> <<>>]
    /\ adapter = NoAdapter

----------------------------------------------------------------------------
\* init(): any task that is not inside another call
InitCall(a) ==
    /\ \E t \in Tasks : Idle(t)
    /\ config' = ConfigUpdate(a)
    /\ ops' = ops + 1
    /\ last' = [NoLast EXCEPT !.op = "init"]
    /\ UNCHANGED <<adapter, status, inLoop, ctxTag, ctxRun, stack, pc, loc, runs, senders, issued>>

\* Task t starts task u.  "create_task": asyncio.create_task from a task of
\* the loop, the child is a task of the loop and runs in a copy of the
\* parent's Context.  "copy_thread": a thread run in a copy of the parent's
\* Context (asyncio.to_thread, copy_context().run).  "thread": a plain
\* threading.Thread, which starts in an empty Context.
SpawnKinds == {"create_task", "copy_thread", "thread"}

Spawn(t, u, kind) ==
    /\ Idle(t)
    /\ status[u] = "unstarted"
    /\ kind = "create_task" => inLoop[t]
    /\ status' = [status EXCEPT ![u] = "running"]
    /\ inLoop' = [inLoop EXCEPT ![u] = (kind = "create_task")]
    /\ ctxTag' = [ctxTag EXCEPT ![u] = IF kind = "thread" THEN None ELSE ctxTag[t]]
    /\ ctxRun' = [ctxRun EXCEPT ![u] = IF kind = "thread" THEN NoRun ELSE ctxRun[t]]
    /\ ops' = ops + 1
    /\ last' = [NoLast EXCEPT !.op = "spawn", !.t = t]
    /\ UNCHANGED <<adapter, config, stack, pc, loc, runs, senders, issued>>

----------------------------------------------------------------------------
\* Feature-tag scopes: a with feature_context(tag) block ("fc") or a call of
\* an observe-decorated function ("obs").
FeatureScopes == { <<"fc", "a">>, <<"fc", "">>, <<"obs", "b">> }

Frame(k, r, tok, t) ==
    [k |-> k, r |-> r, tok |-> tok, pre |-> ctxTag[t], preRun |-> ctxRun[t]]

Top(s) == s[Len(s)]
Pop(s) == SubSeq(s, 1, Len(s) - 1)

\* EnterFeature with the tag kept in a module global instead of a ContextVar
EnterFeatureGlobal(t, k, tag) ==
    /\ Idle(t)
    /\ Len(stack[t]) < MaxDepth
    /\ stack' = [stack EXCEPT ![t] = Append(@, Frame(k, NoRun, TagToken(t), t))]
    /\ ctxTag' = [u \in Tasks |-> tag]
    /\ ops' = ops + 1
    /\ last' = [NoLast EXCEPT !.op = "enter_feature", !.t = t, !.preTag = ctxTag[t],
                              !.preRun = ctxRun[t]]
    /\ UNCHANGED <<adapter, config, status, inLoop, ctxRun, pc, loc, runs, senders, issued>>

\* feature_context.__enter__ / the wrappers of observe up to the call of f
EnterFeature(t, k, tag) ==
    /\ Idle(t)
    /\ Len(stack[t]) < MaxDepth
    /\ stack' = [stack EXCEPT ![t] = Append(@, Frame(k, NoRun, TagToken(t), t))]
    /\ ctxTag' = [ctxTag EXCEPT ![t] = tag]
    /\ ops' = ops + 1
    /\ last' = [NoLast EXCEPT !.op = "enter_feature", !.t = t, !.preTag = ctxTag[t],
                              !.preRun = ctxRun[t]]
    /\ UNCHANGED <<adapter, config, status, inLoop, ctxRun, pc, loc, runs, senders, issued>>

\* feature_context.__exit__ / the finally clause of observe's wrappers; exc
\* is the exception the body raised, NoExc when it returned.  Neither
\* suppresses the exception.
ExitFeature(t, exc) ==
    /\ Idle(t)
    /\ stack[t] # <<>>
    /\ Top(stack[t]).k \in {"fc", "obs"}
    /\ LET f == Top(stack[t]) IN
        /\ ctxTag' = [ctxTag EXCEPT ![t] = TagAfterReset(t, f.tok)]
        /\ last' = [NoLast EXCEPT !.op = "exit_feature", !.t = t, !.exc = exc,
                                  !.raised = exc.cls, !.preTag = f.pre,
                                  !.preRun = f.preRun]
    /\ stack' = [stack EXCEPT ![t] = Pop(@)]
    /\ ops' = ops + 1
    /\ UNCHANGED <<adapter, config, status, inLoop, ctxRun, pc, loc, runs, senders, issued>>

----------------------------------------------------------------------------
\* AgentRun(...)
ConstructRun(t, r, a) ==
    /\ Idle(t)
    /\ ~runs[r].made
    /\ \A q \in Runs : q < r => runs[q].made
    /\ runs' = [runs EXCEPT ![r] = NewRun(r, a)]
    /\ ops' = ops + 1
    /\ last' = [NoLast EXCEPT !.op = "construct", !.t = t, !.r = r]
    /\ UNCHANGED <<adapter, config, status, inLoop, ctxTag, ctxRun, stack, pc, loc, senders, issued>>

StartRecord(run) ==
    [BlankRecord EXCEPT !.path = "/api/runs/start", !.project_id = config.project_id,
                        !.run_id = run.run_id, !.run_name = run.run_name,
                        !.feature_tag = run.feature_tag]

\* AgentRun.__enter__ (and __aenter__, which calls it): both ContextVars are
\* set before the payload reads _config["project_id"], which raises KeyError
\* before init(); the with statement then runs no body and no __exit__.
EnterRun(t, r) ==
    /\ Idle(t)
    /\ runs[r].made
    /\ Len(stack[t]) < MaxDepth
    /\ LET run == runs[r]
           pushes == Truthy(run.feature_tag)
           ok == HasKeys(config)
       IN
        /\ ctxRun' = [ctxRun EXCEPT ![t] = r]
        /\ ctxTag' = [ctxTag EXCEPT ![t] = IF pushes THEN run.feature_tag ELSE @]
        /\ runs' = [runs EXCEPT ![r].token = RunToken(t),
                                ![r].feature_token =
                                    IF pushes THEN TagToken(t) ELSE @]
        /\ senders' = IF ok THEN Dispatched(t, <<StartRecord(run)>>) ELSE senders
        /\ stack' = IF ok THEN [stack EXCEPT ![t] = Append(@, Frame("run", r, NoToken, t))]
                          ELSE stack
        /\ last' = [NoLast EXCEPT !.op = "enter_run", !.t = t, !.r = r,
                                  !.raised = IF ok THEN None ELSE "KeyError",
                                  !.preTag = ctxTag[t], !.preRun = ctxRun[t],
                                  !.nrec = IF ok THEN 1 ELSE 0]
    /\ ops' = ops + 1
    /\ UNCHANGED <<adapter, config, status, inLoop, pc, loc, issued>>

\* ExitStatus with the two branches swapped
ExitStatusSwapped(exc) == IF exc.cls # None THEN "completed" ELSE "failed"

\* status = "failed" if exc_type else "completed"
ExitStatus(exc) == IF exc.cls # None THEN "failed" ELSE "completed"

\* error = type(exc_val).__name__ if exc_val else None
ExitError(exc) == IF exc.cls # None /\ exc.truthy THEN exc.cls ELSE None

\* return False
ExitReturn == FALSE

EndRecord(run, exc) ==
    [BlankRecord EXCEPT !.path = "/api/runs/end", !.project_id = config.project_id,
                        !.run_id = run.run_id, !.status = ExitStatus(exc),
                        !.error_type = ExitError(exc)]

\* AgentRun.__exit__ (and __aexit__, which calls it) for the innermost open
\* run scope of task t; exc is the exception the body raised, NoExc when it
\* returned.  The end record is dispatched first, then the feature tag is
\* reset if a token was stored, then the active run; a reset that raises
\* ends the method there.
ExitRun(t, exc) ==
    /\ Idle(t)
    /\ stack[t] # <<>>
    /\ Top(stack[t]).k = "run"
    /\ LET f == Top(stack[t])
           r == f.r
           run == runs[r]
           ok == HasKeys(config)
           ftok == run.feature_token
           e1 == IF ok /\ ftok.set THEN ResetError(t, ftok) ELSE None
           reach2 == ok /\ e1 = None
           e2 == IF reach2 THEN ResetError(t, run.token) ELSE None
           err == IF ~ok THEN "KeyError" ELSE IF e1 # None THEN e1 ELSE e2
       IN
        /\ senders' = IF ok THEN Dispatched(t, <<EndRecord(run, exc)>>) ELSE senders
        /\ ctxTag' = [ctxTag EXCEPT ![t] =
                        IF ok /\ ftok.set THEN TagAfterReset(t, ftok) ELSE @]
        /\ ctxRun' = [ctxRun EXCEPT ![t] =
                        IF reach2 THEN RunAfterReset(t, run.token) ELSE @]
        /\ runs' = [runs EXCEPT ![r].feature_token =
                                    IF ok /\ ftok.set THEN Consumed(t, ftok) ELSE @,
                                ![r].token =
                                    IF reach2 THEN Consumed(t, run.token) ELSE @]
        /\ last' = [NoLast EXCEPT !.op = "exit_run", !.t = t, !.r = r, !.exc = exc,
                                  !.raised = IF err # None THEN err
                                             ELSE IF ExitReturn THEN None ELSE exc.cls,
                                  !.preTag = f.pre, !.preRun = f.preRun,
                                  !.nrec = IF ok THEN 1 ELSE 0]
    /\ stack' = [stack EXCEPT ![t] = Pop(@)]
    /\ ops' = ops + 1
    /\ UNCHANGED <<adapter, config, status, inLoop, pc, loc, issued>>

----------------------------------------------------------------------------
\* track()

\* ResolvedTag with the ambient tag tried before the argument
ResolvedTagAmbientFirst(arg, ambient) == Or(ambient, Or(arg, "unknown"))

\* resolved_tag = feature_tag or _current_feature_tag.get() or "unknown"
ResolvedTag(arg, ambient) == Or(arg, Or(ambient, "unknown"))

\* ResolvedEnvironment with the configuration's label tried before the argument
ResolvedEnvironmentConfigFirst(arg) == Or(CfgEnvironment(config), arg)

\* environment or _config.get("environment", "production")
ResolvedEnvironment(arg) == Or(arg, CfgEnvironment(config))

\* The payload of track(), after the optional keys were added
IngestRecord(t, a, run_id, step_index) ==
    [BlankRecord EXCEPT !.path = "/api/ingest", !.project_id = config.project_id,
                        !.feature_tag = ResolvedTag(a.feature_tag, ctxTag[t]),
                        !.environment = ResolvedEnvironment(a.environment),
                        !.success = a.success, !.error_type = a.error_type,
                        !.run_id = run_id, !.step_index = step_index]

\* The payload of _send_run_step
StepRecord(run, step_index, a) ==
    [BlankRecord EXCEPT !.path = "/api/runs/step", !.project_id = config.project_id,
                        !.run_id = run.run_id, !.step_index = step_index,
                        !.success = a.success, !.error_type = a.error_type]

\* track() from its first line.  With the enabled flag false it returns at
\* once.  With an active run and no run_id it reads the run's counter (the
\* load of self._step_counter += 1) and goes on in TrackStore.  Otherwise it
\* builds the payload, which raises KeyError before init(), and dispatches.
TrackBegin(t, a) ==
    /\ Idle(t)
    /\ ops' = ops + 1
    /\ LET here == [NoLast EXCEPT !.t = t, !.args = a, !.preTag = ctxTag[t],
                                  !.preRun = ctxRun[t],
                                  !.before = IF ctxRun[t] # NoRun
                                             THEN runs[ctxRun[t]].step_counter ELSE 0]
       IN
        IF ~CfgEnabled(config) THEN
            /\ last' = [here EXCEPT !.op = "track", !.skipped = TRUE]
            /\ UNCHANGED <<config, status, inLoop, ctxTag, ctxRun, stack, pc, loc,
                           runs, senders, issued>>
        ELSE IF ctxRun[t] # NoRun /\ a.run_id = None THEN
            /\ pc' = [pc EXCEPT ![t] = "store"]
            /\ loc' = [loc EXCEPT ![t] = [args |-> a, run |-> ctxRun[t],
                                          tmp |-> runs[ctxRun[t]].step_counter]]
            /\ last' = [here EXCEPT !.op = "track_call", !.r = ctxRun[t]]
            /\ UNCHANGED <<config, status, inLoop, ctxTag, ctxRun, stack, runs, senders, issued>>
        ELSE
            /\ senders' = IF HasKeys(config)
                          THEN Dispatched(t, <<IngestRecord(t, a, a.run_id, a.step_index)>>)
                          ELSE senders
            /\ last' = [here EXCEPT !.op = "track",
                                    !.raised = IF HasKeys(config) THEN None ELSE "KeyError",
                                    !.nrec = IF HasKeys(config) THEN 1 ELSE 0]
            /\ UNCHANGED <<config, status, inLoop, ctxTag, ctxRun, stack, pc, loc, runs, issued>>

\* NextStepStore with the increment forgotten
NextStepStoreSame(counter, tmp) == tmp

\* AgentRun._next_step: the store of self._step_counter += 1
NextStepStore(counter, tmp) == tmp + 1

TrackStore(t) ==
    /\ Runnable(t)
    /\ pc[t] = "store"
    /\ runs' = [runs EXCEPT ![loc[t].run].step_counter = NextStepStore(@, loc[t].tmp)]
    /\ pc' = [pc EXCEPT ![t] = "ret"]
    /\ UNCHANGED <<adapter, config, status, inLoop, ctxTag, ctxRun, stack, loc, senders, ops, last, issued>>

\* AgentRun._next_step: return self._step_counter, and the rest of track():
\* _send_run_step, whose payload raises KeyError before init(), then the
\* telemetry payload and its dispatch.
TrackFinish(t) ==
    /\ Runnable(t)
    /\ pc[t] = "ret"
    /\ LET r == loc[t].run
           a == loc[t].args
           step_index == runs[r].step_counter
           ok == HasKeys(config)
       IN
        /\ senders' = IF ok
                      THEN Dispatched(t, << StepRecord(runs[r], step_index, a),
                                            IngestRecord(t, a, runs[r].run_id, step_index) >>)
                      ELSE senders
        /\ last' = [NoLast EXCEPT !.op = "track", !.t = t, !.r = r, !.args = a,
                                  !.raised = IF ok THEN None ELSE "KeyError",
                                  !.preTag = ctxTag[t], !.preRun = ctxRun[t],
                                  !.before = loc[t].tmp, !.nrec = IF ok THEN 2 ELSE 0]
    /\ issued' = [issued EXCEPT ![loc[t].run] =
                    Append(@, [t |-> t, index |-> runs[loc[t].run].step_counter])]
    /\ pc' = [pc EXCEPT ![t] = "idle"]
    /\ loc' = [loc EXCEPT ![t] = NoLocals]
    /\ UNCHANGED <<adapter, config, status, inLoop, ctxTag, ctxRun, stack, runs, ops>>

----------------------------------------------------------------------------
\* The detached senders: _send_telemetry / _send_telemetry_sync for
\* /api/ingest, _send_run_api / _send_run_api_sync for the run paths.

\* SenderRunnable with the coroutine created but never scheduled on the loop
SenderRunnableThreadsOnly(i) == senders[i].via = "thread"

\* A sender scheduled on the event loop runs when no task of the loop is
\* inside a call; a sender thread runs whenever the scheduler picks it.
SenderRunnable(i) ==
    senders[i].via = "task" => \A u \in Tasks : inLoop[u] => pc[u] = "idle"

\* Only the two telemetry senders print the payload under debug.
Printed(rec) == CfgDebug(config) /\ rec.path = "/api/ingest"

\* SenderStart without the enabled check
SenderStartUnguarded(i) ==
    /\ senders[i].phase = "queued"
    /\ SenderRunnable(i)
    /\ senders' = [senders EXCEPT ![i] =
                    [@ EXCEPT !.phase = "sending", !.printed = Printed(senders[i])]]
    /\ UNCHANGED <<adapter, config, status, inLoop, ctxTag, ctxRun, stack, pc, loc, runs, ops, last,
                   issued>>

\* SenderStart with the enabled check left out of the two coroutines
SenderStartTaskUnguarded(i) ==
    /\ senders[i].phase = "queued"
    /\ SenderRunnable(i)
    /\ senders' = [senders EXCEPT ![i] =
                    IF ~CfgEnabled(config) /\ senders[i].via = "thread"
                    THEN [@ EXCEPT !.phase = "dropped"]
                    ELSE [@ EXCEPT !.phase = "sending", !.printed = Printed(senders[i])]]
    /\ UNCHANGED <<adapter, config, status, inLoop, ctxTag, ctxRun, stack, pc, loc, runs, ops, last,
                   issued>>

\* The enabled check at the head of the sender, and the debug print
SenderStart(i) ==
    /\ senders[i].phase = "queued"
    /\ SenderRunnable(i)
    /\ senders' = [senders EXCEPT ![i] =
                    IF ~CfgEnabled(config) THEN [@ EXCEPT !.phase = "dropped"]
                    ELSE [@ EXCEPT !.phase = "sending", !.printed = Printed(senders[i])]]
    /\ UNCHANGED <<adapter, config, status, inLoop, ctxTag, ctxRun, stack, pc, loc, runs, ops, last, issued>>

\* client.post(...): host and credential are read from _config when the
\* request is made; a missing key raises KeyError, and the request itself
\* succeeds ("ok") or raises (connection error, timeout: "error").  Whatever
\* is raised is swallowed by except Exception: pass, and nothing is retried.
PostOutcomes == {"ok", "error"}

\* SenderPost with a failed request put back in line for another attempt
SenderPostRetrying(i, outcome) ==
    /\ senders[i].phase = "sending"
    /\ SenderRunnable(i)
    /\ senders' = [senders EXCEPT ![i] =
                    IF HasKeys(config) /\ outcome = "ok"
                    THEN [@ EXCEPT !.phase = "sent", !.host = config.host,
                                   !.key = config.tracker_api_key, !.attempts = @ + 1]
                    ELSE [@ EXCEPT !.phase = "queued", !.attempts = @ + 1]]
    /\ UNCHANGED <<adapter, config, status, inLoop, ctxTag, ctxRun, stack, pc, loc, runs, ops, last, issued>>

SenderPost(i, outcome) ==
    /\ senders[i].phase = "sending"
    /\ SenderRunnable(i)
    /\ senders' = [senders EXCEPT ![i] =
                    IF HasKeys(config) /\ outcome = "ok"
                    THEN [@ EXCEPT !.phase = "sent", !.host = config.host,
                                   !.key = config.tracker_api_key, !.attempts = @ + 1]
                    ELSE [@ EXCEPT !.phase = "failed", !.attempts = @ + 1]]
    /\ UNCHANGED <<adapter, config, status, inLoop, ctxTag, ctxRun, stack, pc, loc, runs, ops, last, issued>>

----------------------------------------------------------------------------
\* The steps that finish what an API call started: the rest of a track()
\* call in flight, and the detached senders (here with requests that get
\* through; DispatchSpec has the ones that fail).
Internal ==
    \/ \E t \in Tasks : TrackStore(t)
    \/ \E t \in Tasks : TrackFinish(t)
    \/ \E i \in 1..Len(senders) : SenderStart(i)
    \/ \E i \in 1..Len(senders) : SenderPost(i, "ok")

\* Every operation with every argument, at most MaxOps API calls.
Next ==
    \/ ops < MaxOps /\ \E a \in InitArgs : InitCall(a)
    \/ ops < MaxOps /\ \E t, u \in Tasks, k \in SpawnKinds : Spawn(t, u, k)
    \/ ops < MaxOps /\ \E t \in Tasks, f \in FeatureScopes : EnterFeature(t, f[1], f[2])
    \/ ops < MaxOps /\ \E t \in Tasks, e \in Exceptions \cup {NoExc} : ExitFeature(t, e)
    \/ ops < MaxOps /\ \E t \in Tasks, r \in Runs, a \in RunArgs : ConstructRun(t, r, a)
    \/ ops < MaxOps /\ \E t \in Tasks, r \in Runs : EnterRun(t, r)
    \/ ops < MaxOps /\ \E t \in Tasks, e \in Exceptions \cup {NoExc} : ExitRun(t, e)
    \/ ops < MaxOps /\ \E t \in Tasks, a \in TrackArgs : TrackBegin(t, a) /\ UNCHANGED adapter
    \/ Internal

Spec == Init /\ [][Next]_vars

----------------------------------------------------------------------------
\* Step numbering under sharing: one run, entered by the main task, shared
\* with a child that runs in a copy of the Context, and track() with the
\* default arguments from either.  The senders are left out: they touch no
\* counter.
MaxStepOps == 6

EnabledInitArgs == { a \in InitArgs : a.enabled }

StepsNext ==
    \/ ops < MaxStepOps /\ \E a \in EnabledInitArgs : InitCall(a)
    \/ ops < MaxStepOps /\ \E t \in Tasks, r \in Runs :
            ConstructRun(t, r, [run_name |-> "demo", feature_tag |-> "bot"])
    \/ ops < MaxStepOps /\ \E t \in Tasks, r \in Runs : EnterRun(t, r)
    \/ ops < MaxStepOps /\ \E t, u \in Tasks, k \in {"create_task", "copy_thread"} :
            Spawn(t, u, k)
    \/ ops < MaxStepOps /\ \E t \in Tasks : TrackBegin(t, NoArgs) /\ UNCHANGED adapter
    \/ \E t \in Tasks : TrackStore(t)
    \/ \E t \in Tasks : TrackFinish(t)

StepsSpec == Init /\ [][StepsNext]_vars

----------------------------------------------------------------------------
\* The end-to-end scenario: init() once with the system enabled, one run
\* constructed, entered once by the main task, track() with the default
\* arguments at most MaxScenarioSteps times inside it, a normal exit; the
\* senders run whenever they are scheduled.
MaxScenarioSteps == 2

ScenarioNext ==
    \/ ~config.present /\ \E a \in EnabledInitArgs : InitCall(a)
    \/ config.present /\ \E a \in RunArgs : ConstructRun(1, 1, a)
    \/ ~runs[1].token.set /\ EnterRun(1, 1)
    \/ /\ stack[1] # <<>>
       /\ runs[1].step_counter < MaxScenarioSteps
       /\ TrackBegin(1, NoArgs) /\ UNCHANGED adapter
    \/ TrackStore(1)
    \/ TrackFinish(1)
    \/ ExitRun(1, NoExc)
    \/ \E i \in 1..Len(senders) : SenderStart(i)
    \/ \E i \in 1..Len(senders) : SenderPost(i, "ok")

ScenarioSpec == Init /\ [][ScenarioNext]_vars

----------------------------------------------------------------------------
\* Run scopes at depth: one task, init() with the system enabled, runs
\* constructed with any arguments, run and feature scopes entered and left
\* in any properly nested order, with and without an exception.
MaxScopeOps == 6

ScopesNext ==
    \/ ops < MaxScopeOps /\ ~config.present /\ \E a \in EnabledInitArgs : InitCall(a)
    \/ ops < MaxScopeOps /\ \E r \in Runs, a \in RunArgs : ConstructRun(1, r, a)
    \/ ops < MaxScopeOps /\ \E f \in FeatureScopes : EnterFeature(1, f[1], f[2])
    \/ ops < MaxScopeOps /\ \E e \in Exceptions \cup {NoExc} : ExitFeature(1, e)
    \/ ops < MaxScopeOps /\ \E r \in Runs : EnterRun(1, r)
    \/ ops < MaxScopeOps /\ \E e \in Exceptions \cup {NoExc} : ExitRun(1, e)

ScopesSpec == Init /\ [][ScopesNext]_vars

----------------------------------------------------------------------------
\* Dispatch and transmission: one task, on the event loop or not, any
\* init(), a run entered and left, track() with any arguments, and senders
\* whose requests succeed or fail.
MaxSendOps == 4

DispatchNext ==
    \/ ops < MaxSendOps /\ \E a \in InitArgs : InitCall(a)
    \/ ops < MaxSendOps /\ \E a \in RunArgs : ConstructRun(1, 1, a)
    \/ ops < MaxSendOps /\ EnterRun(1, 1)
    \/ ops < MaxSendOps /\ \E e \in Exceptions \cup {NoExc} : ExitRun(1, e)
    \/ ops < MaxSendOps /\ \E a \in TrackArgs : TrackBegin(1, a) /\ UNCHANGED adapter
    \/ TrackStore(1)
    \/ TrackFinish(1)
    \/ \E i \in 1..Len(senders) : SenderStart(i)
    \/ \E i \in 1..Len(senders), o \in PostOutcomes : SenderPost(i, o)

DispatchSpec == Init /\ [][DispatchNext]_vars

----------------------------------------------------------------------------
\* The provider adapters, called by the main task.  Their track() call is
\* TrackBegin: no run is ambient here, so the call completes in one step,
\* and what it raised is in last'.

\* The input figure after element e of a stream: OpenAI and Gemini take it
\* from any element whose usage is truthy, Anthropic from message_start
StreamInput(p, e, cur) ==
    IF p = "anthropic"
    THEN IF e.type = "message_start" /\ e.usage.present THEN OrZero(e.usage.input) ELSE cur
    ELSE IF e.usage.present THEN OrZero(e.usage.input) ELSE cur

\* StreamOutput with the figures of the elements added up
StreamOutputSummed(p, e, cur) == cur + OrZero(e.usage.output)

\* The output figure after element e: Anthropic takes it from message_delta
StreamOutput(p, e, cur) ==
    IF p = "anthropic"
    THEN IF e.type = "message_delta" /\ e.usage.present THEN OrZero(e.usage.output) ELSE cur
    ELSE IF e.usage.present THEN OrZero(e.usage.output) ELSE cur

\* The keyword arguments of the adapter's track() call that the core reads
AdapterTrackArgs(tag, success, error_type) ==
    [NoArgs EXCEPT !.feature_tag = tag, !.success = success, !.error_type = error_type]

\* What the adapter passed to track(), after how many yielded elements,
\* and what track() raised into the adapter
TrackCall(input, output, success, error_type, raised) ==
    [input |-> input, output |-> output, success |-> success, error_type |-> error_type,
     after |-> Len(adapter.yielded), raised |-> raised]

\* create(stream=True) / generate_content(stream=True): the tag is resolved
\* now, the vendor stream is wrapped in a generator, nothing has run yet
AdapterStream(p, s, tag) ==
    /\ Idle(1)
    /\ adapter.phase = "idle"
    /\ adapter' = [NoAdapter EXCEPT !.provider = p, !.phase = "open", !.src = s,
                                    !.feature_tag = ResolvedTag(tag, ctxTag[1])]
    /\ UNCHANGED <<config, status, inLoop, ctxTag, ctxRun, stack, pc, loc, runs, senders, ops,
                   last, issued>>

\* The caller asks the wrapper for the next element and the vendor stream
\* has one: usage is noted, the element is yielded as it is
StreamNext ==
    /\ adapter.phase = "open"
    /\ Len(adapter.yielded) < Len(adapter.src)
    /\ LET e == adapter.src[Len(adapter.yielded) + 1] IN
        adapter' = [adapter EXCEPT
                        !.input_tokens = StreamInput(adapter.provider, e, @),
                        !.output_tokens = StreamOutput(adapter.provider, e, @),
                        !.yielded = Append(@, e)]
    /\ UNCHANGED <<config, status, inLoop, ctxTag, ctxRun, stack, pc, loc, runs, senders, ops,
                   last, issued>>

\* The caller asks for the next element and the vendor stream is exhausted:
\* the loop ends, track() is called inside try / except Exception: pass
StreamExhausted ==
    /\ adapter.phase = "open"
    /\ Len(adapter.yielded) = Len(adapter.src)
    /\ TrackBegin(1, AdapterTrackArgs(adapter.feature_tag, TRUE, None))
    /\ adapter' = [adapter EXCEPT
                        !.phase = "done",
                        !.calls = Append(@, TrackCall(adapter.input_tokens,
                                                      adapter.output_tokens, TRUE, None,
                                                      last'.raised))]

\* StreamAbandoned with the report made in a finally clause of the wrapper
StreamAbandonedTracked ==
    /\ adapter.phase = "open"
    /\ adapter' = [adapter EXCEPT
                        !.phase = "closed",
                        !.calls = Append(@, TrackCall(adapter.input_tokens,
                                                      adapter.output_tokens, TRUE, None, None))]
    /\ UNCHANGED <<config, status, inLoop, ctxTag, ctxRun, stack, pc, loc, runs, senders, ops,
                   last, issued>>

\* The caller drops the generator before exhaustion: GeneratorExit is
\* raised at the yield and nothing after the loop runs
StreamAbandoned ==
    /\ adapter.phase = "open"
    /\ adapter' = [adapter EXCEPT !.phase = "closed"]
    /\ UNCHANGED <<config, status, inLoop, ctxTag, ctxRun, stack, pc, loc, runs, senders, ops,
                   last, issued>>

\* A non-streaming call that the vendor answers with resp: response.usage
\* and its figures are read inside the try block (AttributeError when usage
\* is None, before track() is reached), track() is called there too, and
\* the response is returned
AdapterCall(p, resp, tag) ==
    /\ Idle(1)
    /\ adapter.phase = "idle"
    /\ IF resp.usage.present
       THEN /\ TrackBegin(1, AdapterTrackArgs(ResolvedTag(tag, ctxTag[1]), TRUE, None))
            /\ adapter' = [NoAdapter EXCEPT
                                !.provider = p, !.phase = "returned",
                                !.feature_tag = ResolvedTag(tag, ctxTag[1]),
                                !.response = resp, !.returned = resp,
                                !.calls = << TrackCall(resp.usage.input, resp.usage.output,
                                                       TRUE, None, last'.raised) >>]
       ELSE /\ adapter' = [NoAdapter EXCEPT
                                !.provider = p, !.phase = "returned",
                                !.feature_tag = ResolvedTag(tag, ctxTag[1]),
                                !.response = resp, !.returned = resp]
            /\ UNCHANGED <<config, status, inLoop, ctxTag, ctxRun, stack, pc, loc, runs,
                           senders, ops, last, issued>>

\* A non-streaming call in which the vendor raises exc.  OpenAI and
\* Anthropic call track(success=False) outside any try block and re-raise;
\* Gemini's wrapper has no except clause around the vendor call.
AdapterCallRaises(p, exc, tag) ==
    /\ Idle(1)
    /\ adapter.phase = "idle"
    /\ IF p # "gemini"
       THEN /\ TrackBegin(1, AdapterTrackArgs(ResolvedTag(tag, ctxTag[1]), FALSE, exc.cls))
            /\ adapter' = [NoAdapter EXCEPT
                                !.provider = p, !.phase = "raised",
                                !.feature_tag = ResolvedTag(tag, ctxTag[1]),
                                !.propagated = IF last'.raised # None THEN last'.raised
                                               ELSE exc.cls,
                                !.calls = << TrackCall(0, 0, FALSE, exc.cls, last'.raised) >>]
       ELSE /\ adapter' = [NoAdapter EXCEPT
                                !.provider = p, !.phase = "raised",
                                !.feature_tag = ResolvedTag(tag, ctxTag[1]),
                                !.propagated = exc.cls]
            /\ UNCHANGED <<config, status, inLoop, ctxTag, ctxRun, stack, pc, loc, runs,
                           senders, ops, last, issued>>

\* One adapter call of the main task, before or after init(), inside a
\* feature_context or not.
AdapterNext ==
    \/ ~config.present /\ \E a \in InitArgs : InitCall(a)
    \/ stack[1] = <<>> /\ adapter.phase = "idle" /\ EnterFeature(1, "fc", "a")
    \/ adapter.phase = "idle" /\ \E p \in Providers, s \in Streams, tag \in AdapterTags :
            AdapterStream(p, s, tag)
    \/ StreamNext
    \/ StreamExhausted
    \/ StreamAbandoned
    \/ adapter.phase = "idle" /\ \E p \in Providers, tag \in AdapterTags :
            \E resp \in Responses(p) : AdapterCall(p, resp, tag)
    \/ adapter.phase = "idle" /\ \E p \in Providers, exc \in Exceptions, tag \in AdapterTags :
            AdapterCallRaises(p, exc, tag)

AdapterSpec == Init /\ [][AdapterNext]_vars

----------------------------------------------------------------------------
\* async with: the coroutines AgentRun.__aenter__ and AgentRun.__aexit__
\* contain no await; each calls the synchronous method in the caller's
\* Context and returns what it returns.

\* async def __aenter__(self): return self.__enter__()
AEnterRun(t, r) == EnterRun(t, r)

\* AExitRun with the exception not passed on to __exit__
AExitRunNoException(t, exc) == ExitRun(t, NoExc)

\* async def __aexit__(self, exc_type, exc_val, exc_tb):
\*     return self.__exit__(exc_type, exc_val, exc_tb)
AExitRun(t, exc) == ExitRun(t, exc)

\* Run scopes entered and left with "with" and with "async with": one
\* task, on the event loop or not, any init(), runs constructed with any
\* arguments, track() with the default arguments inside and outside them.
MaxAsyncOps == 5

AsyncNext ==
    \/ ops < MaxAsyncOps /\ ~config.present /\ \E a \in InitArgs : InitCall(a)
    \/ ops < MaxAsyncOps /\ \E r \in Runs, a \in RunArgs : ConstructRun(1, r, a)
    \/ ops < MaxAsyncOps /\ \E r \in Runs : EnterRun(1, r)
    \/ ops < MaxAsyncOps /\ \E r \in Runs : AEnterRun(1, r)
    \/ ops < MaxAsyncOps /\ \E e \in Exceptions \cup {NoExc} : ExitRun(1, e)
    \/ ops < MaxAsyncOps /\ \E e \in Exceptions \cup {NoExc} : AExitRun(1, e)
    \/ ops < MaxAsyncOps /\ TrackBegin(1, NoArgs) /\ UNCHANGED adapter
    \/ TrackStore(1)
    \/ TrackFinish(1)

AsyncSpec == Init /\ [][AsyncNext]_vars

----------------------------------------------------------------------------
\* Nested runs: init() once with the system enabled, runs constructed by
\* the main task and entered inside one another, track() with the default
\* arguments at any depth, exits with and without an exception, and a
\* plain thread that is handed the run objects and enters them too.
MaxNestOps == 8

NestedNext ==
    \/ ops < MaxNestOps /\ ~config.present /\ \E a \in EnabledInitArgs : InitCall(a)
    \/ ops < MaxNestOps /\ \E r \in Runs :
            ConstructRun(1, r, [run_name |-> "demo", feature_tag |-> "bot"])
    \/ ops < MaxNestOps /\ \E t \in Tasks, r \in Runs : EnterRun(t, r)
    \/ ops < MaxNestOps /\ Spawn(1, 2, "thread")
    \/ ops < MaxNestOps /\ \E e \in Exceptions \cup {NoExc} : ExitRun(1, e)
    \/ ops < MaxNestOps /\ TrackBegin(1, NoArgs) /\ UNCHANGED adapter
    \/ TrackStore(1)
    \/ TrackFinish(1)

NestedSpec == Init /\ [][NestedNext]_vars

----------------------------------------------------------------------------
\* A run that outlives its scope: init() once with the system enabled, one
\* run entered once by the main task, children started inside or outside
\* the scope in a copy of the main task's Context, the scope left, and
\* track() with the default arguments from any task at any time.
MaxEndOps == 6

EndedNext ==
    \/ ops < MaxEndOps /\ ~config.present /\ \E a \in EnabledInitArgs : InitCall(a)
    \/ ops < MaxEndOps /\ ConstructRun(1, 1, [run_name |-> "demo", feature_tag |-> "bot"])
    \/ ops < MaxEndOps /\ ~runs[1].token.set /\ EnterRun(1, 1)
    \/ ops < MaxEndOps /\ \E u \in Tasks, k \in {"create_task", "copy_thread"} : Spawn(1, u, k)
    \/ ops < MaxEndOps /\ \E e \in Exceptions \cup {NoExc} : ExitRun(1, e)
    \/ ops < MaxEndOps /\ \E t \in Tasks : TrackBegin(t, NoArgs) /\ UNCHANGED adapter
    \/ \E t \in Tasks : TrackStore(t)
    \/ \E t \in Tasks : TrackFinish(t)

EndedSpec == Init /\ [][EndedNext]_vars

----------------------------------------------------------------------------
\* Transmission under fair scheduling: init() with the system enabled, one
\* run entered once and left, track() with the default arguments, and the
\* senders, whose requests succeed or fail.  The process keeps running:
\* a call in flight goes on, the event loop runs every task it was given
\* and every started thread gets processor time (weak fairness of each
\* caller step and of each sender's steps).
MaxLiveOps == 4

\* No call dispatches more than two records
MaxLiveRecords == 2 * MaxLiveOps

LiveNext ==
    \/ ops < MaxLiveOps /\ \E a \in EnabledInitArgs : InitCall(a)
    \/ ops < MaxLiveOps /\ ConstructRun(1, 1, [run_name |-> "demo", feature_tag |-> "bot"])
    \/ ops < MaxLiveOps /\ ~runs[1].token.set /\ EnterRun(1, 1)
    \/ ops < MaxLiveOps /\ ExitRun(1, NoExc)
    \/ ops < MaxLiveOps /\ TrackBegin(1, NoArgs) /\ UNCHANGED adapter
    \/ TrackStore(1)
    \/ TrackFinish(1)
    \/ \E i \in 1..Len(senders) : SenderStart(i)
    \/ \E i \in 1..Len(senders), o \in PostOutcomes : SenderPost(i, o)

Fairness ==
    /\ WF_vars(TrackStore(1))
    /\ WF_vars(TrackFinish(1))
    /\ \A i \in 1..MaxLiveRecords :
        /\ WF_vars(i <= Len(senders) /\ SenderStart(i))
        /\ WF_vars(i <= Len(senders) /\ \E o \in PostOutcomes : SenderPost(i, o))

LiveSpec == Init /\ [][LiveNext]_vars /\ Fairness

----------------------------------------------------------------------------
\* What the properties below read.

\* The enabled flag was set to false by init()
Disabled == config.present /\ ~config.enabled

\* This step is a call of API operation op
Calls(op) == ops' = ops + 1 /\ last'.op = op

\* This step is the first step of a track() call
TrackCalled == ops' = ops + 1 /\ last'.op \in {"track", "track_call"}

\* This step is the return of a track() call
TrackReturned ==
    /\ last'.op = "track"
    /\ ops' = ops + 1 \/ (pc[last'.t] = "ret" /\ pc'[last'.t] = "idle")

\* The tasks with a track() call in flight on run r, and every task that
\* was issued a step index of r
InFlight(r) == { t \in Tasks : pc[t] # "idle" /\ loc[t].run = r }
Callers(r) == { issued[r][i].t : i \in 1..Len(issued[r]) } \cup InFlight(r)

\* The Run Step Events dispatched for run r, in dispatch order
IsStepOf(r, e) == e.path = "/api/runs/step" /\ e.run_id = RunId(r)
StepEvents(r) == SelectSeq(senders, LAMBDA e : IsStepOf(r, e))

\* The record dispatched last
Newest == senders[Len(senders)]

----------------------------------------------------------------------------
\* C1: when tasks that share an active run call track() without run_id
\* concurrently, no step index is issued twice and no increment is lost:
\* once no call is in flight, after k calls the counter is k and the issued
\* indices are exactly 1..k.
C1_IncrementsSerialized ==
    \A r \in Runs :
        LET k == Len(issued[r]) IN
            /\ \A i, j \in 1..k : i # j => issued[r][i].index # issued[r][j].index
            /\ InFlight(r) = {} =>
                /\ runs[r].step_counter = k
                /\ { issued[r][i].index : i \in 1..k } = 1..k

\* C2: within one logical task, every track() call made with a run ambient
\* and no run_id emits a Run Step Event whose index is the counter before
\* the call plus 1, and the indices emitted for a run start at 1 and are
\* strictly increasing in call order.
C2_StepIndexSequence ==
    /\ \A r \in Runs :
        Cardinality(Callers(r)) <= 1 =>
            LET ev == StepEvents(r) IN
                /\ ev # <<>> => ev[1].step_index = 1
                /\ \A i, j \in 1..Len(ev) : i < j => ev[i].step_index < ev[j].step_index
    /\ (last.op = "track" /\ last.r # NoRun /\ Cardinality(Callers(last.r)) <= 1) =>
            /\ last.nrec = 2
            /\ IsStepOf(last.r, senders[Len(senders) - 1])
            /\ senders[Len(senders) - 1].step_index = last.before + 1

C4_FailedExit ==
    (last.op = "exit_run" /\ last.exc.cls # None) =>
        /\ last.nrec = 1
        /\ Newest.path = "/api/runs/end"
        /\ Newest.status = "failed"
        /\ Newest.error_type = last.exc.cls
        /\ ctxTag[last.t] = last.preTag
        /\ ctxRun[last.t] = last.preRun
        /\ last.raised = last.exc.cls

\* C5: an AgentRun scope left without an exception dispatches an end event
\* with status "completed" and no error kind.
C5_CompletedExit ==
    (last.op = "exit_run" /\ last.exc.cls = None) =>
        /\ last.nrec = 1
        /\ Newest.path = "/api/runs/end"
        /\ Newest.run_id = RunId(last.r)
        /\ Newest.status = "completed"
        /\ Newest.error_type = None

C5_Witness ==
    /\ last.op = "exit_run"
    /\ last.exc = NoExc
    /\ Len(senders) >= 2
    /\ Newest.status = "completed"

\* C6: track() never raises into its caller, whatever the arguments and
\* the configuration, init() not yet called included.
C6_TrackNeverRaises == last.op = "track" => last.raised = None

C8_DisabledTrackNoEffect ==
    [][(TrackCalled /\ Disabled) =>
        UNCHANGED <<config, status, inLoop, ctxTag, ctxRun, stack, pc, loc, runs,
                    senders, issued>>]_vars

C8_Witness ==
    /\ Disabled
    /\ last.op = "track"
    /\ last.raised = None
    /\ last.nrec = 0
    /\ last.preTag # None
    /\ ctxRun[last.t] # NoRun

----------------------------------------------------------------------------
\* The end-to-end scenario's events: what a record says, without the
\* configuration it was built under and the state of its sender.
Event(path, run_name, step_index, feature_tag, outcome, error_type) ==
    [path |-> path, run_id |-> RunId(1), run_name |-> run_name,
     step_index |-> step_index, feature_tag |-> feature_tag, status |-> outcome,
     error_type |-> error_type]

EventOf(e) ==
    [path |-> e.path, run_id |-> e.run_id, run_name |-> e.run_name,
     step_index |-> e.step_index, feature_tag |-> e.feature_tag, status |-> e.status,
     error_type |-> e.error_type]

Events == [i \in 1..Len(senders) |-> EventOf(senders[i])]

\* n track() calls: a step event and a telemetry record for each, in call order
ScenarioSteps(n, T) ==
    [i \in 1..(2 * n) |->
        IF i % 2 = 1
        THEN Event("/api/runs/step", None, (i + 1) \div 2, None, None, None)
        ELSE Event("/api/ingest", None, i \div 2, T, None, None)]

\* The events expected so far: none before the entry, then the start event,
\* the steps of the calls that returned, and the end event after the exit.
ScenarioExpected ==
    LET run == runs[1]
        n == IF pc[1] = "idle" THEN run.step_counter ELSE loc[1].tmp
    IN
        IF ~run.token.set THEN <<>>
        ELSE << Event("/api/runs/start", run.run_name, NoStep, run.feature_tag, None, None) >>
             \o ScenarioSteps(n, run.feature_tag)
             \o IF run.token.used
                THEN << Event("/api/runs/end", None, NoStep, None, "completed", None) >>
                ELSE <<>>

\* C9 as stated: in the scenario, for a run with feature tag T, the events
\* dispatched are exactly: nothing at construction, the start event, then
\* for the i-th call a step event with index i and a telemetry record with
\* feature_tag T, the run's id and step_index i, then the end event with
\* status "completed".
C9_ScenarioEvents == Events = ScenarioExpected

\* C9 amended: the same for a run whose feature tag T is not empty.
C9_ScenarioEventsTagged == runs[1].feature_tag # "" => Events = ScenarioExpected

C9_Witness ==
    /\ runs[1].feature_tag = "bot"
    /\ runs[1].token.used
    /\ runs[1].step_counter = 2
    /\ Len(senders) = 6
    /\ stack[1] = <<>>

----------------------------------------------------------------------------
\* C10 as stated: the feature tag of a telemetry record is the explicit
\* argument if one was given, else the ambient tag if one is set, else
\* "unknown".
C10_ExplicitIfGiven ==
    (last.op = "track" /\ last.nrec >= 1) =>
        /\ Newest.path = "/api/ingest"
        /\ Newest.feature_tag =
            IF last.args.feature_tag # None THEN last.args.feature_tag
            ELSE IF last.preTag # None THEN last.preTag
            ELSE "unknown"

\* C10 amended: the feature tag of a telemetry record is the explicit
\* argument if it is a non-empty string, else the ambient tag if it is a
\* non-empty string, else "unknown".
C10_ExplicitIfNotEmpty ==
    (last.op = "track" /\ last.nrec >= 1) =>
        /\ Newest.path = "/api/ingest"
        /\ Newest.feature_tag =
            IF last.args.feature_tag \notin {None, ""} THEN last.args.feature_tag
            ELSE IF last.preTag \notin {None, ""} THEN last.preTag
            ELSE "unknown"

C10_Witness ==
    /\ last.op = "track"
    /\ last.nrec >= 1
    /\ last.args.feature_tag = "x"
    /\ last.preTag = "a"
    /\ Newest.feature_tag = "x"

----------------------------------------------------------------------------
\* C11: the ambient feature tag and active run of a task change only by
\* that task's own scope entries and exits; whatever other tasks enter or
\* exit, before, during or after a track() call of the task, a started
\* task keeps reading its own values.
C11_ContextIsolated ==
    [][\A u \in Tasks :
        (status[u] = "running" /\ (ctxTag'[u] # ctxTag[u] \/ ctxRun'[u] # ctxRun[u]))
            => /\ ops' = ops + 1
               /\ last'.t = u
               /\ last'.op \in {"enter_feature", "exit_feature", "enter_run", "exit_run"}]_vars

C11_Witness ==
    /\ last.op = "exit_feature"
    /\ last.t = 1
    /\ status[2] = "running"
    /\ ctxTag[1] = None
    /\ ctxTag[2] = "a"

----------------------------------------------------------------------------
\* The lifecycle records dispatched for run r on a path
Lifecycle(r, path) == SelectSeq(senders, LAMBDA e : e.path = path /\ e.run_id = RunId(r))

\* C12: an AgentRun is opened and closed at most once: over any sequence of
\* entries and exits at most one start event and at most one end event are
\* dispatched for its run id.
C12_ClosedOnce ==
    \A r \in Runs :
        /\ Len(Lifecycle(r, "/api/runs/start")) <= 1
        /\ Len(Lifecycle(r, "/api/runs/end")) <= 1

----------------------------------------------------------------------------
\* A run made by AgentRun() with no feature_tag argument
NoTagSupplied(r) == runs[r].run_name = None /\ runs[r].feature_tag = "unknown"

\* C13: entering a run constructed without a feature_tag argument pushes
\* no tag: the ambient feature tag read inside the scope is the one read
\* just before the entry.
C13_NoTagNoPush ==
    (last.op = "enter_run" /\ last.raised = None /\ NoTagSupplied(last.r))
        => ctxTag[last.t] = last.preTag

----------------------------------------------------------------------------
\* C14: while a run's scope is the innermost open scope of a task the run
\* is the task's ambient active run, and after the scope is left, by return
\* or by exception, the ambient active run and feature tag are the values
\* read right before the run was entered (last in, first out for nested
\* runs).
C14_RunScopeRestores ==
    /\ \A t \in Tasks :
        (stack[t] # <<>> /\ Top(stack[t]).k = "run") => ctxRun[t] = Top(stack[t]).r
    /\ last.op = "exit_run" =>
        /\ ctxRun[last.t] = last.preRun
        /\ ctxTag[last.t] = last.preTag

----------------------------------------------------------------------------
\* C15: a transmission attempt that fails (request error, timeout, missing
\* host or credential) is discarded inside the sender: the step changes
\* nothing but that record's sender, raises nothing into any caller, and
\* the record is never sent again; no record gets a second attempt.
C15_FailureDiscarded ==
    [][/\ \A i \in 1..Len(senders) :
            /\ senders[i].phase \in {"failed", "sent", "dropped"}
                => senders'[i] = senders[i]
            /\ senders'[i].attempts <= 1
       /\ (\E i \in 1..Len(senders) :
                senders[i].phase = "sending" /\ senders'[i].phase # "sending")
            => /\ UNCHANGED <<config, status, inLoop, ctxTag, ctxRun, stack, pc, loc, runs,
                              ops, last, issued>>
               /\ Len(senders') = Len(senders)
               /\ Cardinality({ i \in 1..Len(senders) : senders'[i] # senders[i] }) = 1]_vars

C15_Witness ==
    \E i, j \in 1..Len(senders) :
        /\ i < j
        /\ senders[i].phase = "failed"
        /\ senders[i].attempts = 1
        /\ senders[j].phase = "sent"
        /\ last.raised = None
        /\ ctxRun[1] # NoRun

----------------------------------------------------------------------------
\* C16: every record dispatched by a call (telemetry, run start, run step,
\* run end) is handed to a detached task of the event loop when the caller
\* runs inside the loop, and to a new background thread otherwise.
C16_PathByCallerContext ==
    [][\A i \in (Len(senders) + 1)..Len(senders') :
        /\ senders'[i].phase = "queued"
        /\ senders'[i].via = IF inLoop[last'.t] THEN "task" ELSE "thread"]_vars

C16_Witness ==
    \E i, j \in 1..Len(senders) :
        /\ senders[i].via = "task"
        /\ senders[j].via = "thread"
        /\ inLoop[1]
        /\ ~inLoop[2]

----------------------------------------------------------------------------
\* C17: a run's step counter starts at 0 and changes only in the increment
\* of a track() call attached to the run, never downwards; constructing,
\* entering and leaving runs, track() with an explicit run_id (which
\* dispatches one telemetry record carrying the caller's run_id and
\* step_index and no Run Step Event) and track() with no run ambient leave
\* every counter as it was.
C17_CounterOnlyBySteps ==
    [][/\ \A r \in Runs :
            /\ (~runs[r].made /\ runs'[r].made) => runs'[r].step_counter = 0
            /\ runs[r].made =>
                /\ runs'[r].step_counter >= runs[r].step_counter
                /\ runs'[r].step_counter # runs[r].step_counter =>
                    \E t \in Tasks :
                        pc[t] = "store" /\ pc'[t] = "ret" /\ loc[t].run = r
       /\ (Calls("track") /\ last'.args.run_id # None /\ last'.raised = None
                /\ ~last'.skipped) =>
            /\ Len(senders') = Len(senders) + 1
            /\ senders'[Len(senders')].path = "/api/ingest"
            /\ senders'[Len(senders')].run_id = last'.args.run_id
            /\ senders'[Len(senders')].step_index = last'.args.step_index]_vars

----------------------------------------------------------------------------
\* C18: the configuration is always the complete bundle of one init() call
\* (or empty before the first), and what a concurrent reader observes of it
\* is the bundle of exactly one init() call, never a mix of two: every
\* transmitted request carries project id, host and credential of one call.
C18_OneBundle ==
    /\ config = EmptyCfg \/ \E a \in InitArgs : config = ConfigUpdate(a)
    /\ \A i \in 1..Len(senders) :
        senders[i].phase = "sent" =>
            \E a \in InitArgs :
                /\ senders[i].project_id = a.project_id
                /\ senders[i].host = a.host
                /\ senders[i].key = a.tracker_api_key

----------------------------------------------------------------------------
\* The elements of s, by position, that report a figure to provider p's
\* stream wrapper: any element with usage for OpenAI and Gemini; for
\* Anthropic message_start reports the input and message_delta the output
Reports(p, s, type) ==
    { i \in 1..Len(s) : s[i].usage.present /\ (p = "anthropic" => s[i].type = type) }

Latest(S) == CHOOSE i \in S : \A j \in S : j <= i

LastInput(p, s) ==
    LET S == Reports(p, s, "message_start") IN
        IF S = {} THEN 0 ELSE IF s[Latest(S)].usage.input = NoCount THEN 0
        ELSE s[Latest(S)].usage.input

LastOutput(p, s) ==
    LET S == Reports(p, s, "message_delta") IN
        IF S = {} THEN 0 ELSE IF s[Latest(S)].usage.output = NoCount THEN 0
        ELSE s[Latest(S)].usage.output

\* C19: a stream wrapper passes the vendor's elements on unmodified and in
\* order, calls track() never before the vendor stream is exhausted and
\* exactly once when it is, after the last element, with the input and
\* output figures last reported in the stream (0 where none was reported).
C19_StreamTrackedOnce ==
    adapter.phase \in {"open", "closed", "done"} =>
        /\ Len(adapter.yielded) <= Len(adapter.src)
        /\ adapter.yielded = SubSeq(adapter.src, 1, Len(adapter.yielded))
        /\ adapter.phase # "done" => adapter.calls = <<>>
        /\ adapter.phase = "done" =>
            /\ adapter.yielded = adapter.src
            /\ Len(adapter.calls) = 1
            /\ adapter.calls[1].after = Len(adapter.src)
            /\ adapter.calls[1].success
            /\ adapter.calls[1].input = LastInput(adapter.provider, adapter.src)
            /\ adapter.calls[1].output = LastOutput(adapter.provider, adapter.src)

C19_Witness ==
    /\ adapter.phase = "done"
    /\ adapter.provider = "openai"
    /\ Len(adapter.src) = 2
    /\ adapter.src[1].usage.present
    /\ ~adapter.src[2].usage.present
    /\ adapter.calls[1].input = 2
    /\ adapter.calls[1].output = 3

----------------------------------------------------------------------------
\* C20: a non-streaming adapter call that the vendor answers returns the
\* vendor's response unchanged, after exactly one track() call was
\* attempted; an exception raised by that call does not reach the caller.
C20_ResponseReturnedTrackedOnce ==
    adapter.phase = "returned" =>
        /\ adapter.returned = adapter.response
        /\ adapter.propagated = None
        /\ Len(adapter.calls) = 1

----------------------------------------------------------------------------
\* C21 as stated: the environment of a telemetry record is the explicit
\* environment argument if one was given, else the configuration's
\* environment label, else "production".
C21_EnvironmentIfGiven ==
    (last.op = "track" /\ last.nrec >= 1) =>
        /\ Newest.path = "/api/ingest"
        /\ Newest.environment =
            IF last.args.environment # None THEN last.args.environment
            ELSE IF config.present THEN config.environment
            ELSE "production"

\* C21 amended: the environment of a telemetry record is the explicit
\* environment argument if it is a non-empty string, else the
\* configuration's environment label, else "production".
C21_EnvironmentIfNotEmpty ==
    (last.op = "track" /\ last.nrec >= 1) =>
        /\ Newest.path = "/api/ingest"
        /\ Newest.environment =
            IF last.args.environment \notin {None, ""} THEN last.args.environment
            ELSE IF config.present THEN config.environment
            ELSE "production"

C21_Witness ==
    /\ last.op = "track"
    /\ last.nrec >= 1
    /\ last.args.environment = "dev"
    /\ config.environment = "staging"
    /\ Newest.environment = "dev"

----------------------------------------------------------------------------
\* C22: no public operation waits for a transmission: a step of a caller
\* (an API call, or the rest of a track() call in flight) leaves every
\* record dispatched earlier exactly as its sender left it, hands its own
\* records over untransmitted, and either returns or leaves a track() call
\* whose next step needs no sender to have run.
C22_CallerNeverWaits ==
    [][(ops' = ops + 1 \/ pc' # pc) =>
        /\ \A i \in 1..Len(senders) : senders'[i] = senders[i]
        /\ \A i \in (Len(senders) + 1)..Len(senders') :
            senders'[i].phase = "queued" /\ senders'[i].attempts = 0
        /\ \A t \in Tasks :
            pc'[t] # pc[t] =>
                \/ pc'[t] = "idle"
                \/ pc'[t] = "store" /\ (ENABLED TrackStore(t))'
                \/ pc'[t] = "ret" /\ (ENABLED TrackFinish(t))']_vars

C22_Witness ==
    /\ last.op = "track"
    /\ last.nrec = 2
    /\ Len(senders) = 3
    /\ senders[1].phase = "sending"
    /\ senders[2].phase = "queued"
    /\ senders[3].phase = "queued"
    /\ pc[last.t] = "idle"

----------------------------------------------------------------------------
\* C23: with the debug flag true, every record handed to the Dispatcher, on
\* any path and by task or thread, is printed to the diagnostic sink before
\* its transmission is attempted: a sender that passes its enabled check
\* while debug is true has printed its record.
C23_DebugPrintsEveryRecord ==
    [][\A i \in 1..Len(senders) :
        (senders[i].phase = "queued" /\ senders'[i].phase = "sending" /\ CfgDebug(config))
            => senders'[i].printed]_vars

----------------------------------------------------------------------------
----------------------------------------------------------------------------
\* The run whose scope encloses the innermost open scope of task t, when
\* both are run scopes of different AgentRun objects (NoRun otherwise)
Outer(t) ==
    LET s == stack[t] IN
        IF Len(s) >= 2 /\ s[Len(s)].k = "run" /\ s[Len(s) - 1].k = "run"
              /\ s[Len(s)].r # s[Len(s) - 1].r
        THEN s[Len(s) - 1].r
        ELSE NoRun

\* C25: with a second AgentRun entered while another is active in the same
\* task, a track() call inside the inner scope is attributed to the inner
\* run only (the records carry its id and its next index) and leaves the
\* outer run's counter as it was; when the inner scope is left the outer
\* run is the ambient run again, and its numbering goes on from its own
\* last index plus 1.
C25_InnerRunShadowsOuter ==
    [][\A t \in Tasks :
        /\ Outer(t) # NoRun =>
            /\ (pc'[t] # pc[t] \/ (TrackCalled /\ last'.t = t)) =>
                /\ runs'[Outer(t)].step_counter = runs[Outer(t)].step_counter
                /\ pc'[t] # "idle" => loc'[t].run = Top(stack[t]).r
                /\ \A i \in (Len(senders) + 1)..Len(senders') :
                    senders'[i].run_id = RunId(Top(stack[t]).r)
            /\ (Calls("exit_run") /\ last'.t = t) =>
                /\ ctxRun'[t] = Outer(t)
                /\ runs'[Outer(t)].step_counter = runs[Outer(t)].step_counter
        /\ (pc[t] = "idle" /\ pc'[t] = "store") =>
            /\ loc'[t].run = ctxRun[t]
            /\ loc'[t].tmp = runs[ctxRun[t]].step_counter
        /\ (pc[t] = "ret" /\ pc'[t] = "idle" /\ last'.raised = None) =>
            /\ Len(senders') = Len(senders) + 2
            /\ IsStepOf(loc[t].run, senders'[Len(senders) + 1])
            /\ senders'[Len(senders) + 1].step_index = loc[t].tmp + 1]_vars

----------------------------------------------------------------------------
\* C26: once the end event of a run has been dispatched, no Run Step Event
\* is dispatched for that run and its step counter does not change any
\* more, whoever calls track(): a child task or thread started inside the
\* scope with a copy of its Context included.
C26_NoStepAfterEnd ==
    [][\A r \in Runs :
        Len(Lifecycle(r, "/api/runs/end")) >= 1 =>
            /\ runs'[r].step_counter = runs[r].step_counter
            /\ \A i \in (Len(senders) + 1)..Len(senders') : ~IsStepOf(r, senders'[i])]_vars

----------------------------------------------------------------------------
\* C27: when entering an AgentRun scope fails (init() was never called, so
\* the project identifier is missing), the ambient active run and feature
\* tag of the task are what they were before the attempt.
C27_FailedEntryLeavesAmbient ==
    (last.op = "enter_run" /\ last.raised # None) =>
        /\ ctxRun[last.t] = last.preRun
        /\ ctxTag[last.t] = last.preTag

----------------------------------------------------------------------------
\* C28: a transmission attempt begins only with the enabled flag true at
\* that moment: a sender passes its check and starts sending only while
\* the flag is true, a sender that runs while the flag is false drops its
\* record, whenever the record was dispatched, a dropped record is never
\* touched again, and a request is made only by a sender that passed its
\* check.
C28_AttemptOnlyWhileEnabled ==
    [][\A i \in 1..Len(senders) :
        /\ (senders[i].phase = "queued" /\ senders'[i].phase = "sending")
            => (config.present /\ config.enabled)
        /\ (senders[i].phase = "queued" /\ senders'[i] # senders[i] /\ Disabled)
            => (senders'[i].phase = "dropped" /\ senders'[i].attempts = 0)
        /\ senders[i].phase = "dropped" => senders'[i] = senders[i]
        /\ senders'[i].attempts # senders[i].attempts => senders[i].phase = "sending"]_vars

C28_Witness ==
    \E i, j \in 1..Len(senders) :
        /\ senders[i].phase = "sent"
        /\ senders[j].phase = "dropped"
        /\ senders[j].attempts = 0
        /\ Disabled

----------------------------------------------------------------------------
\* C29: every transmitted record is self-consistent: the project id in its
\* body, the environment in its body when it came from the configuration,
\* and the host and credential it was sent with are those of one and the
\* same init() call, init() calls between track() and the transmission
\* included.
C29_RecordOfOneInit ==
    \A i \in 1..Len(senders) :
        senders[i].phase = "sent" =>
            \E a \in InitArgs :
                /\ senders[i].project_id = a.project_id
                /\ senders[i].environment \in { b.environment : b \in InitArgs }
                    => senders[i].environment = a.environment
                /\ senders[i].host = a.host
                /\ senders[i].key = a.tracker_api_key

----------------------------------------------------------------------------
\* C30: under fair scheduling, with the system initialized and enabled,
\* every record dispatched by track() or by a run's entry or exit
\* eventually gets its transmission attempt, and gets exactly one: no
\* record is ever attempted twice, and none stays unattempted.
C30_EveryRecordAttemptedOnce ==
    /\ [](\A i \in 1..Len(senders) : senders[i].attempts <= 1)
    /\ \A i \in 1..MaxLiveRecords :
        (i <= Len(senders))
            ~> [](/\ i <= Len(senders)
                  /\ senders[i].phase \in {"sent", "failed"}
                  /\ senders[i].attempts = 1)

C30_Witness ==
    /\ Len(senders) = 3
    /\ \A i \in 1..3 : senders[i].attempts = 1
    /\ senders[1].path = "/api/runs/start"
    /\ senders[1].phase = "sent"
    /\ senders[2].phase = "failed"
    /\ senders[3].path = "/api/ingest"
    /\ senders[3].phase = "sent"

----------------------------------------------------------------------------
\* C31: when the vendor call of a non-streaming adapter call raises, the
\* adapter makes exactly one track() call, with success false, the
\* exception's class name as error_type and 0 input and output tokens, and
\* the exception that reaches the adapter's caller is the vendor's, also
\* when that track() call itself raises.
C31_VendorFailureReported ==
    adapter.phase = "raised" =>
        /\ adapter.propagated \in { e.cls : e \in Exceptions }
        /\ Len(adapter.calls) = 1
        /\ ~adapter.calls[1].success
        /\ adapter.calls[1].error_type = adapter.propagated
        /\ adapter.calls[1].input = 0
        /\ adapter.calls[1].output = 0

----------------------------------------------------------------------------
\* C32: a provider-adapter call makes at most one track() call whatever
\* its outcome: none while its stream is being consumed, none for a stream
\* abandoned before exhaustion, and never a second one after a response,
\* a vendor exception or an exhausted stream.
C32_AtMostOneTrackCall ==
    /\ Len(adapter.calls) <= 1
    /\ adapter.phase \in {"idle", "open", "closed"} => adapter.calls = <<>>

C32_Witness ==
    /\ adapter.phase = "closed"
    /\ Len(adapter.src) = 2
    /\ Len(adapter.yielded) = 1
    /\ adapter.yielded[1].usage.present
    /\ adapter.calls = <<>>
    /\ config.present

====
